---- MODULE Spec2Model ----
(***************************************************************************)
(* Model of the channel generation pipeline of spamassassin_channel.       *)
(*                                                                         *)
(* The repository holds two scripts that implement the pipeline:           *)
(*   generate_channel_cf.py  render + hash check + lint + tar + gpg        *)
(*   generate_cf.py          render only, with --channel, --dry-run        *)
(* One run of either script is modelled; args.script says which one runs.  *)
(* A run is a sequential program, pc is its position.                      *)
(***************************************************************************)
EXTENDS Integers, Sequences, FiniteSets, TLC

\* Bounds of the model.
NumChannels == 2
NumRules == 2

ChannelIds == 1..NumChannels
RuleIds == 1..NumRules

\* The two scripts.
FULL == "generate_channel_cf"
LITE == "generate_cf"

-----------------------------------------------------------------------------
(* The relational store (read-only input).                                 *)

\* channels.name of the channel with the given id: a string, as the
\* sequence of its character codes.  Names are distinct per channel.
ChannelName(id) == <<id>>

\* rules.rule_name of a rule: a string, as the sequence of its character
\* codes.  Names sort in the opposite order of the ids.
RuleName(r) == <<1, NumRules + 1 - r>>

\* rules.rule, the body text of a rule (opaque, a number stands for a text).
RuleBody(r) == r

\* hashlib.sha256(content.encode("utf-8")).hexdigest(), over the small
\* domain of body texts of the model: a digest in 0..15.
compute_hash(content) == (content * 5 + 3) % 16

\* The same function under its name in generate_cf.py (never called there).
compute_rule_hash(rule_text) == (rule_text * 5 + 3) % 16

\* The rows a rule can be in the store: eligible with a fingerprint of its
\* current body, eligible with the fingerprint of another (older) body,
\* inactive, or not in production.
RuleRows(r) ==
    LET row(act, st, h) == [id |-> r, rule_name |-> RuleName(r), rule |-> RuleBody(r),
                            rule_hash |-> h, active |-> act, status |-> st]
    IN  { row(1, "production", compute_hash(RuleBody(r))),
          row(1, "production", compute_hash(RuleBody(r) + NumRules)),
          row(0, "production", compute_hash(RuleBody(r))),
          row(1, "testing", compute_hash(RuleBody(r))) }

\* The table channels.
ChannelRow(id) == [id |-> id, name |-> ChannelName(id)]

\* The channels a rule can be bound to in table channel_rules: none, one
\* channel, or every channel.
BoundChannels == {{}, ChannelIds} \cup { {c} : c \in ChannelIds }

\* All store contents of the model: table rules, and table channel_rules as
\* a set of <<channel_id, rule_id>>.
Stores ==
    { [rules |-> rt,
       channel_rules |-> { cr \in ChannelIds \X RuleIds : cr[1] \in bound[cr[2]] }] :
        rt \in { f \in [RuleIds -> UNION { RuleRows(r) : r \in RuleIds }] :
                   \A r \in RuleIds : f[r] \in RuleRows(r) },
        bound \in [RuleIds -> BoundChannels] }

\* Lexicographic order of two strings (sequences of character codes).
RECURSIVE LexLess(_, _)
LexLess(a, b) ==
    IF b = <<>> THEN FALSE
    ELSE IF a = <<>> THEN TRUE
    ELSE IF Head(a) # Head(b) THEN Head(a) < Head(b)
    ELSE LexLess(Tail(a), Tail(b))

\* ORDER BY r.rule_name: the rows of a set, ascending by rule_name.
RECURSIVE OrderByRuleName(_)
OrderByRuleName(rows) ==
    IF rows = {} THEN <<>>
    ELSE LET first == CHOOSE x \in rows :
                        \A y \in rows \ {x} : LexLess(x.rule_name, y.rule_name)
         IN  <<first>> \o OrderByRuleName(rows \ {first})

\* SQL_RULES_FOR_CHANNEL without the condition r.active = 1.
SQL_RULES_FOR_CHANNEL_any_active(st, channel_id) ==
    OrderByRuleName({ st.rules[r] : r \in
        { r \in RuleIds : /\ <<channel_id, r>> \in st.channel_rules
                          /\ st.rules[r].status = "production" } })

\* SQL_RULES_FOR_CHANNEL / fetch_rules_for_channel: the rows of the rules
\* bound to the channel that are active and in production, by rule_name.
SQL_RULES_FOR_CHANNEL(st, channel_id) ==
    OrderByRuleName({ st.rules[r] : r \in
        { r \in RuleIds : /\ <<channel_id, r>> \in st.channel_rules
                          /\ st.rules[r].active = 1
                          /\ st.rules[r].status = "production" } })

\* The rows of a set of channel ids, in primary-key order.
RECURSIVE ChannelRowsOf(_)
ChannelRowsOf(ids) ==
    IF ids = {} THEN <<>>
    ELSE LET m == CHOOSE x \in ids : \A y \in ids : x <= y
         IN  <<ChannelRow(m)>> \o ChannelRowsOf(ids \ {m})

\* SQL_CHANNELS of generate_channel_cf.py: WHERE id = %s OR %s IS NULL.
SQL_CHANNELS(channel_id) ==
    ChannelRowsOf({ c \in ChannelIds : channel_id.given => c = channel_id.value })

\* fetch_channels of generate_cf.py: the name filter is added only when
\* args.channel is truthy (neither None nor the empty string).
fetch_channels(channel) ==
    LET truthy == channel.given /\ channel.value # <<>>
    IN  ChannelRowsOf({ c \in ChannelIds : truthy => ChannelName(c) = channel.value })

-----------------------------------------------------------------------------
(* Command lines.                                                          *)

NoSelector(v) == [given |-> FALSE, value |-> v]
Selector(v) == [given |-> TRUE, value |-> v]

\* --channel-id of generate_channel_cf.py: absent, the id of a channel, or
\* an id the store does not hold.
ChannelIdArgs == {NoSelector(0)} \cup { Selector(i) : i \in 1..(NumChannels + 1) }

\* --channel of generate_cf.py: absent, empty, the name of a channel, or a
\* name the store does not hold.
ChannelArgs == {NoSelector(<<>>), Selector(<<>>)}
                  \cup { Selector(ChannelName(i)) : i \in 1..(NumChannels + 1) }

\* generate_channel_cf.py has no --dry-run option.
Args == { [script |-> FULL, channel_id |-> s, channel |-> NoSelector(<<>>),
            dry_run |-> FALSE] : s \in ChannelIdArgs }
          \cup { [script |-> LITE, channel_id |-> NoSelector(0), channel |-> s,
                   dry_run |-> d] : s \in ChannelArgs, d \in BOOLEAN }

-----------------------------------------------------------------------------
(* The output directory.                                                   *)

Exts == {"cf", "tar.bz2", "tar.bz2.asc"}
Paths == { <<ChannelName(c), e>> : c \in ChannelIds, e \in Exts }
\* The output directory itself.
OutDir == <<<<>>, "">>

Absent == [kind |-> "absent"]
\* What a failed writer may leave behind: a truncated file.
Partial == [kind |-> "partial"]

\* template.render(channel=..., rules=..., generated_at=...): the text is a
\* function of the channel, the rule rows in order, and generated_at.
Render(channel, rule_rows, generated_at) ==
    [kind |-> "text", channel |-> channel.name,
     rules |-> [i \in 1..Len(rule_rows) |->
                  <<rule_rows[i].rule_name, rule_rows[i].rule>>],
     generated_at |-> generated_at]

\* tar -cjf <name>.tar.bz2 -C out_dir <name>.cf: an archive of the file's
\* content at the time tar runs.
TarOf(cf_content) == [kind |-> "tar", member |-> cf_content]

\* gpg --armor --sign -o <tar>.asc <tar>: a signature of the archive.
SigOf(tar_content) == [kind |-> "asc", signed |-> tar_content]

-----------------------------------------------------------------------------
(* External processes.                                                     *)

ProcResult(k, rc, err) == [kind |-> k, returncode |-> rc, stderr |-> err]

\* spamassassin -D --lint: exits 0, exits non-zero with diagnostics, cannot
\* be spawned, or runs into the timeout of 30 seconds.
LintResults == { ProcResult("exit", 0, ""),
                 ProcResult("exit", 1, "syntax error line 4"),
                 ProcResult("spawn_failed", -1, ""),
                 ProcResult("timeout", -1, "") }

TarResults == { ProcResult("exit", 0, ""),
                ProcResult("exit", 1, "tar: file changed as we read it"),
                ProcResult("exit", 2, "tar: error"),
                ProcResult("spawn_failed", -1, "") }

GpgResults == { ProcResult("exit", 0, ""),
                ProcResult("exit", 2, "gpg: signing failed"),
                ProcResult("spawn_failed", -1, "") }

\* validate_cf_file without the test of the return code.
validate_cf_file_ignoring_returncode(result) ==
    result.kind = "exit"

\* validate_cf_file: True iff the linter ran and exited 0; every exception
\* of subprocess.run (spawn failure, TimeoutExpired) is caught and gives
\* False as well.
validate_cf_file(result) ==
    IF result.kind = "exit"
    THEN result.returncode = 0
    ELSE FALSE

\* subprocess.run(..., check=True) without capture_output: the exception it
\* raises.  CalledProcessError carries the exit status; stdout and stderr
\* were not captured and are None.
NoExc == [type |-> "none"]
CheckedRunError(result, ch) ==
    IF result.kind = "exit"
    THEN [type |-> "CalledProcessError", channel |-> ch,
          returncode |-> result.returncode, stderr |-> "None"]
    ELSE [type |-> "FileNotFoundError", channel |-> ch,
          returncode |-> -1, stderr |-> "None"]

-----------------------------------------------------------------------------
VARIABLES
    args,        \* the command line of the run
    store,       \* the content of the relational store
    pc,          \* position of the run
    channels,    \* the channel rows fetched
    idx,         \* position of the channel loop in channels (1-based)
    rules,       \* rule rows of the channel being processed
    rendered,    \* the rendered text of the channel being processed
    clock,       \* datetime.utcnow(), in seconds
    fs,          \* the output location: [dir, files]
    touched,     \* what this run created or wrote in the output location
    log,         \* the log records written, in order
    invoked,     \* renderer and external processes invoked, in order
    outcome,     \* how the processing of each channel ended
    exc,         \* the uncaught exception that ended the run, if any
    exitStatus,  \* exit status of the process, -1 while it runs
    stages,      \* the stages the run went through, in order
    conc         \* several runs on one output directory (see below)

vars == <<args, store, pc, channels, idx, rules, rendered, clock, fs, touched,
          log, invoked, outcome, exc, exitStatus, stages, conc>>

\* The value of conc in the model of a single run.
NoRuns == [schedule |-> "none"]

Outcomes == {"Packaged", "SkippedEmpty", "SkippedLintFailed", "Failed",
             "Written", "DryRun"}

Init ==
    /\ args \in Args
    /\ store \in Stores
    /\ pc = "load_config"
    /\ channels = <<>>
    /\ idx = 1
    /\ rules = <<>>
    /\ rendered = Absent
    /\ clock = 1
    \* the output location does not exist yet
    /\ fs = [dir |-> FALSE, files |-> [p \in Paths |-> Absent]]
    /\ touched = {}
    /\ log = <<>>
    /\ invoked = <<>>
    /\ outcome = [c \in ChannelIds |-> "None"]
    /\ exc = NoExc
    /\ exitStatus = -1
    /\ stages = <<>>
    /\ conc = NoRuns

Log(level, msg, subject) == [level |-> level, msg |-> msg, subject |-> subject]

\* sys.exit(status) after an error record.
Exit(status) ==
    /\ pc' = "done"
    /\ exitStatus' = status

\* An exception nobody catches: the interpreter prints the traceback and
\* exits with status 1.
Uncaught(e) ==
    /\ exc' = e
    /\ Exit(1)

-----------------------------------------------------------------------------
(* Start of a run: configuration, output directory, store connection.      *)

\* load_config (generate_channel_cf.py) and the try block around
\* yaml.safe_load (generate_cf.py): a missing or unparsable file is logged
\* and ends the run with status 1.
LoadConfig ==
    /\ pc = "load_config"
    /\ \E ok \in BOOLEAN :
         IF ok
         THEN /\ pc' = IF args.script = FULL THEN "setup_jinja" ELSE "mkdir"
              /\ log' = log
              /\ exitStatus' = exitStatus
         ELSE /\ log' = Append(log, Log("ERROR", "config", <<>>))
              /\ Exit(1)
    /\ UNCHANGED <<args, store, channels, idx, rules, rendered, clock, fs, touched,
                   invoked, outcome, exc>>
    /\ UNCHANGED <<stages, conc>>

\* setup_jinja: a missing template directory ends the run with status 1.
SetupJinja ==
    /\ pc = "setup_jinja"
    /\ args.script = FULL
    /\ \E template_dir_exists \in BOOLEAN :
         IF template_dir_exists
         THEN /\ pc' = "mkdir"
              /\ log' = log
              /\ exitStatus' = exitStatus
         ELSE /\ log' = Append(log, Log("ERROR", "template_dir", <<>>))
              /\ Exit(1)
    /\ UNCHANGED <<args, store, channels, idx, rules, rendered, clock, fs, touched,
                   invoked, outcome, exc>>
    /\ UNCHANGED <<stages, conc>>

\* out_dir.mkdir(parents=True, exist_ok=True) / OUTPUT_DIR.mkdir(...): the
\* directory exists afterwards.  Both scripts do this unconditionally.
MakeOutputDir ==
    /\ pc = "mkdir"
    /\ fs' = [fs EXCEPT !.dir = TRUE]
    /\ touched' = IF fs.dir THEN touched ELSE touched \cup {OutDir}
    /\ pc' = "connect"
    /\ UNCHANGED <<args, store, channels, idx, rules, rendered, clock, log,
                   invoked, outcome, exc, exitStatus>>
    /\ UNCHANGED <<stages, conc>>

\* Connect without the sys.exit(1) of the except block.
Connect_without_exit ==
    /\ pc = "connect"
    /\ pc' = "fetch_channels"
    /\ \E ok \in BOOLEAN :
         log' = IF ok THEN log ELSE Append(log, Log("ERROR", "mysql", <<>>))
    /\ UNCHANGED <<args, store, channels, idx, rules, rendered, clock, fs, touched,
                   invoked, outcome, exc, exitStatus, stages, conc>>

\* mysql.connector.connect: an error is logged and ends the run with
\* status 1.
Connect ==
    /\ pc = "connect"
    /\ \E ok \in BOOLEAN :
         IF ok
         THEN /\ pc' = "fetch_channels"
              /\ log' = log
              /\ exitStatus' = exitStatus
         ELSE /\ log' = Append(log, Log("ERROR", "mysql", <<>>))
              /\ Exit(1)
    /\ UNCHANGED <<args, store, channels, idx, rules, rendered, clock, fs, touched,
                   invoked, outcome, exc>>
    /\ UNCHANGED <<stages, conc>>

\* main of generate_channel_cf.py, "Channels laden": no row ends the run
\* with status 1.
MainFetchChannels ==
    /\ pc = "fetch_channels"
    /\ args.script = FULL
    /\ LET rows == SQL_CHANNELS(args.channel_id)
       IN  /\ channels' = rows
           /\ IF rows = <<>>
              THEN /\ log' = Append(log, Log("ERROR", "no_channel", <<>>))
                   /\ Exit(1)
              ELSE /\ pc' = "loop"
                   /\ log' = log
                   /\ exitStatus' = exitStatus
    /\ UNCHANGED <<args, store, idx, rules, rendered, clock, fs, touched, invoked,
                   outcome, exc>>
    /\ UNCHANGED <<stages, conc>>

\* generate_cf.py, "Hauptlogik": no row is a warning and ends the run with
\* status 0.
ModuleFetchChannels ==
    /\ pc = "fetch_channels"
    /\ args.script = LITE
    /\ LET rows == fetch_channels(args.channel)
       IN  /\ channels' = rows
           /\ IF rows = <<>>
              THEN /\ log' = Append(log, Log("WARNING", "no_channel", <<>>))
                   /\ Exit(0)
              ELSE /\ pc' = "loop"
                   /\ log' = log
                   /\ exitStatus' = exitStatus
    /\ UNCHANGED <<args, store, idx, rules, rendered, clock, fs, touched, invoked,
                   outcome, exc>>
    /\ UNCHANGED <<stages, conc>>

\* The channel the loop is at.
ch == channels[idx]

\* "continue", or the end of the loop body: on to the next channel.
NextChannel(result) ==
    /\ outcome' = [outcome EXCEPT ![ch.id] = result]
    /\ idx' = idx + 1
    /\ pc' = "loop"

\* An exception leaves the loop: the channel has failed and the run ends.
Abort(e) ==
    /\ outcome' = [outcome EXCEPT ![ch.id] = "Failed"]
    /\ idx' = idx
    /\ Uncaught(e)

\* File with one file name for every channel.
File_one_name(name, ext) == <<ChannelName(1), ext>>

\* out_dir / f"{channel['name']}.<ext>"
File(name, ext) == <<name, ext>>

\* The run goes through the given stages for the channel of the loop.
Stage(names) ==
    stages' = stages \o [i \in 1..Len(names) |->
                           [stage |-> names[i], channel |-> ch.id]]

\* A file of the output directory is written.
WriteFile(path, content) ==
    /\ fs' = [fs EXCEPT !.files[path] = content]
    /\ touched' = touched \cup {path}

\* Path.write_text / tar / gpg failing: the target is left as it was or
\* as a truncated file.
FailedWrite(path) ==
    \/ UNCHANGED <<fs, touched>>
    \/ WriteFile(path, Partial)

-----------------------------------------------------------------------------
(* generate_channel_cf.py: the loop of main.                               *)

\* for ch in channels: fetch the rules; a channel without rules is a
\* warning and the loop continues.
MainBeginChannel ==
    /\ pc = "loop"
    /\ args.script = FULL
    /\ idx <= Len(channels)
    /\ LET rows == SQL_RULES_FOR_CHANNEL(store, ch.id)
       IN  /\ rules' = rows
           /\ IF rows = <<>>
              THEN /\ log' = log \o <<Log("INFO", "channel", ch.name),
                                      Log("WARNING", "no_rules", ch.name)>>
                   /\ NextChannel("SkippedEmpty")
              ELSE /\ log' = Append(log, Log("INFO", "channel", ch.name))
                   /\ pc' = "write_cf"
                   /\ UNCHANGED <<idx, outcome>>
    /\ UNCHANGED <<args, store, channels, rendered, clock, fs, touched, invoked, exc,
                   exitStatus>>
    /\ Stage(<<"load">>)
    /\ UNCHANGED conc

\* The warnings of the loop "Hash-Validierung" of write_cf_file: one per
\* rule row whose stored rule_hash differs from the hash of its body.
RECURSIVE HashWarnings(_)
HashWarnings(rows) ==
    IF rows = <<>> THEN <<>>
    ELSE (IF Head(rows).rule_hash # compute_hash(Head(rows).rule)
          THEN <<Log("WARNING", "hash_mismatch", Head(rows).rule_name)>>
          ELSE <<>>) \o HashWarnings(Tail(rows))

\* write_cf_file: get the template, render, write <name>.cf, then compare
\* the hashes.  Nothing catches TemplateNotFound, a render error or an
\* OSError of write_text.
WriteCfFile ==
    /\ pc = "write_cf"
    /\ LET cf == File(ch.name, "cf")
           text == Render(ch, rules, clock)
       IN  \/ \* jinja_env.get_template raises
              /\ Abort([type |-> "TemplateNotFound", channel |-> ch.id])
              /\ UNCHANGED <<fs, touched, log, invoked, rendered, clock, stages>>
           \/ \* template.render raises
              /\ invoked' = Append(invoked, [tool |-> "render", channel |-> ch.id])
              /\ Abort([type |-> "TemplateError", channel |-> ch.id])
              /\ Stage(<<"render">>)
              /\ UNCHANGED <<fs, touched, log, rendered, clock>>
           \/ \* cf_path.write_text raises
              /\ invoked' = Append(invoked, [tool |-> "render", channel |-> ch.id])
              /\ FailedWrite(cf)
              /\ Abort([type |-> "OSError", channel |-> ch.id])
              /\ Stage(<<"render", "write">>)
              /\ clock' = clock + 1
              /\ UNCHANGED <<log, rendered>>
           \/ \* written
              /\ invoked' = Append(invoked, [tool |-> "render", channel |-> ch.id])
              /\ WriteFile(cf, text)
              /\ rendered' = text
              /\ clock' = clock + 1
              /\ log' = Append(log, Log("INFO", "written", cf)) \o HashWarnings(rules)
              /\ Stage(<<"render", "write", "verify">>)
              /\ pc' = "validate"
              /\ UNCHANGED <<idx, outcome, exc, exitStatus>>
    /\ UNCHANGED <<args, store, channels, rules>>
    /\ UNCHANGED conc

\* if not validate_cf_file(cf_file, ...): log and continue.
Validate ==
    /\ pc = "validate"
    /\ \E result \in LintResults :
         LET ok == validate_cf_file(result)
             rec == [tool |-> "lint", channel |-> ch.id, result |-> result,
                     returned |-> ok]
         IN  /\ invoked' = Append(invoked, rec)
             /\ IF ok
                THEN /\ log' = Append(log, Log("INFO", "lint_ok", ch.name))
                     /\ pc' = "archive"
                     /\ UNCHANGED <<idx, outcome>>
                ELSE /\ log' = log \o
                          <<Log("ERROR", IF result.kind = "exit" THEN "lint_error"
                                         ELSE "lint_exception", <<result.stderr>>),
                            Log("ERROR", "lint_abort", ch.name)>>
                     /\ NextChannel("SkippedLintFailed")
    /\ UNCHANGED <<args, store, channels, rules, rendered, clock, fs, touched, exc,
                   exitStatus>>
    /\ Stage(<<"lint">>)
    /\ UNCHANGED conc

\* subprocess.run(["tar", "-cjf", ...], check=True)
Archive ==
    /\ pc = "archive"
    /\ LET tar == File(ch.name, "tar.bz2")
           cf == File(ch.name, "cf")
       IN  \E result \in TarResults :
             /\ invoked' = Append(invoked, [tool |-> "tar", channel |-> ch.id,
                                            result |-> result])
             /\ IF result.kind = "exit" /\ result.returncode = 0
                THEN /\ WriteFile(tar, TarOf(fs.files[cf]))
                     /\ pc' = "sign"
                     /\ UNCHANGED <<idx, outcome, exc, exitStatus>>
                ELSE /\ IF result.kind = "exit"
                        THEN FailedWrite(tar)
                        ELSE UNCHANGED <<fs, touched>>
                     /\ Abort(CheckedRunError(result, ch.id))
    /\ UNCHANGED <<args, store, channels, rules, rendered, clock, log>>
    /\ Stage(<<"tar">>)
    /\ UNCHANGED conc

\* subprocess.run(["gpg", "--armor", "--sign", ...], check=True), then the
\* record "Archiv + Signatur" and the end of the loop body.
Sign ==
    /\ pc = "sign"
    /\ LET tar == File(ch.name, "tar.bz2")
           asc == File(ch.name, "tar.bz2.asc")
       IN  \E result \in GpgResults :
             /\ invoked' = Append(invoked, [tool |-> "gpg", channel |-> ch.id,
                                            result |-> result])
             /\ IF result.kind = "exit" /\ result.returncode = 0
                THEN /\ WriteFile(asc, SigOf(fs.files[tar]))
                     /\ log' = Append(log, Log("INFO", "bundle", tar))
                     /\ NextChannel("Packaged")
                     /\ UNCHANGED <<exc, exitStatus>>
                ELSE /\ IF result.kind = "exit"
                        THEN FailedWrite(asc)
                        ELSE UNCHANGED <<fs, touched>>
                     /\ Abort(CheckedRunError(result, ch.id))
                     /\ log' = log
    /\ UNCHANGED <<args, store, channels, rules, rendered, clock>>
    /\ Stage(<<"gpg">>)
    /\ UNCHANGED conc

-----------------------------------------------------------------------------
(* generate_cf.py: the loop at module level.                               *)

\* cnx.get_server_info(), the value bound to generated_at.
ServerInfo == "8.0.36"

\* for chan in channels: fetch the rules and log their number.  There is
\* no test for an empty list.
ModuleBeginChannel ==
    /\ pc = "loop"
    /\ args.script = LITE
    /\ idx <= Len(channels)
    /\ rules' = SQL_RULES_FOR_CHANNEL(store, ch.id)
    /\ log' = log \o <<Log("INFO", "channel", ch.name),
                       Log("INFO", "rule_count", <<Len(rules')>>)>>
    /\ pc' = "render"
    /\ UNCHANGED <<args, store, channels, idx, rendered, clock, fs, touched, invoked,
                   outcome, exc, exitStatus>>
    /\ Stage(<<"load">>)
    /\ UNCHANGED conc

\* "Template rendern": nothing catches TemplateNotFound or an error of
\* template.render (StrictUndefined).
ModuleRender ==
    /\ pc = "render"
    /\ \/ \* jinja_env.get_template raises
          /\ Abort([type |-> "TemplateNotFound", channel |-> ch.id])
          /\ UNCHANGED <<invoked, rendered, stages>>
       \/ \* template.render raises
          /\ invoked' = Append(invoked, [tool |-> "render", channel |-> ch.id])
          /\ Abort([type |-> "TemplateError", channel |-> ch.id])
          /\ Stage(<<"render">>)
          /\ UNCHANGED rendered
       \/ \* rendered
          /\ invoked' = Append(invoked, [tool |-> "render", channel |-> ch.id])
          /\ rendered' = Render(ch, rules, ServerInfo)
          /\ Stage(<<"render">>)
          /\ pc' = "emit"
          /\ UNCHANGED <<idx, outcome, exc, exitStatus>>
    /\ UNCHANGED <<args, store, channels, rules, clock, fs, touched, log>>
    /\ UNCHANGED conc

\* "Ziel-Datei": with --dry-run the file name is logged and the loop
\* continues; otherwise the text is written, and an exception of
\* write_text or stat is logged and swallowed.
ModuleEmit ==
    /\ pc = "emit"
    /\ LET out_file == File(ch.name, "cf")
       IN  IF args.dry_run
           THEN /\ log' = Append(log, Log("INFO", "dry_run", out_file))
                /\ UNCHANGED <<fs, touched, stages>>
                /\ NextChannel("DryRun")
           ELSE \/ /\ WriteFile(out_file, rendered)
                   /\ log' = Append(log, Log("INFO", "written", out_file))
                   /\ Stage(<<"write">>)
                   /\ NextChannel("Written")
                \/ /\ FailedWrite(out_file)
                   /\ log' = Append(log, Log("ERROR", "write_failed", out_file))
                   /\ Stage(<<"write">>)
                   /\ NextChannel("Failed")
    /\ UNCHANGED <<args, store, channels, rules, rendered, clock, invoked, exc,
                   exitStatus>>
    /\ UNCHANGED conc

-----------------------------------------------------------------------------
\* Both scripts after the loop: close the connection, log, and fall off the
\* end of the script (status 0).
Finish ==
    /\ pc = "loop"
    /\ idx > Len(channels)
    /\ log' = Append(log, Log("INFO", "finished", <<>>))
    /\ Exit(0)
    /\ UNCHANGED <<args, store, channels, idx, rules, rendered, clock, fs, touched,
                   invoked, outcome, exc>>
    /\ UNCHANGED <<stages, conc>>

Next ==
    \/ LoadConfig
    \/ SetupJinja
    \/ MakeOutputDir
    \/ Connect
    \/ MainFetchChannels
    \/ ModuleFetchChannels
    \/ MainBeginChannel
    \/ WriteCfFile
    \/ Validate
    \/ Archive
    \/ Sign
    \/ ModuleBeginChannel
    \/ ModuleRender
    \/ ModuleEmit
    \/ Finish

Spec == Init /\ [][Next]_vars

TypeOK ==
    /\ pc \in {"load_config", "setup_jinja", "mkdir", "connect", "fetch_channels",
               "loop", "write_cf", "validate", "archive", "sign", "render",
               "emit", "done"}
    /\ idx \in 1..(NumChannels + 1)
    /\ exitStatus \in {-1, 0, 1}
    /\ \A c \in ChannelIds : outcome[c] \in Outcomes \cup {"None"}
    /\ (pc = "done") = (exitStatus # -1)

-----------------------------------------------------------------------------
(* Properties.                                                             *)

\* The ids of the channels of the run, and what is known of one of them.
Selected == { channels[i].id : i \in 1..Len(channels) }
Ended(c) == outcome[c] # "None"
RunEnded == pc = "done"

Invoked(tool, c) ==
    \E i \in DOMAIN invoked : invoked[i].tool = tool /\ invoked[i].channel = c

IsLint(i) == invoked[i].tool = "lint"
Rejected(i) == /\ IsLint(i)
               /\ invoked[i].result.kind = "exit"
               /\ invoked[i].result.returncode # 0
Unavailable(i) == /\ IsLint(i)
                  /\ invoked[i].result.kind \in {"spawn_failed", "timeout"}
LintRejected(c) == \E i \in DOMAIN invoked : Rejected(i) /\ invoked[i].channel = c

FilesOf(c) == { <<ChannelName(c), e>> : e \in Exts }
CreatedByRun(path) == path \in touched /\ fs.files[path] # Absent

\* C1: in a run over channels c1..cn, whatever happens to ci, every later
\* channel cj is still processed and reaches a terminal state in the same
\* run: when the run has ended, every channel of the run has an outcome.
C1_EveryChannelReachesTerminal ==
    RunEnded => \A c \in Selected : Ended(c)

\* C2: a channel whose artifact the linter rejects (non-zero exit status)
\* ends in SkippedLintFailed, neither tar nor gpg is invoked for it, no
\* exception of it ends the run, and the loop goes on to the next channel,
\* which is processed before the run ends.
C2_LintRejectionSkipsPackaging ==
    \A i \in 1..Len(channels) :
      LET c == channels[i].id
      IN  LintRejected(c) =>
            /\ outcome[c] = "SkippedLintFailed"
            /\ ~Invoked("tar", c)
            /\ ~Invoked("gpg", c)
            /\ (exc # NoExc => exc.channel # c)
            /\ idx > i
            /\ (RunEnded /\ i < Len(channels)) => Ended(channels[i + 1].id)

\* C2 witness: the linter rejected a channel and the next channel of the
\* same run was packaged.
C2_Witness ==
    \E i \in 1..Len(channels) :
      /\ LintRejected(channels[i].id)
      /\ i < Len(channels)
      /\ outcome[channels[i + 1].id] = "Packaged"

\* C3: once the processing of a channel has ended, the output directory
\* does not hold an archive <channel>.tar.bz2 created by this run without
\* a signature <channel>.tar.bz2.asc created by this run.
C3_NoUnsignedArchive ==
    \A c \in ChannelIds :
      Ended(c) =>
        (CreatedByRun(<<ChannelName(c), "tar.bz2">>)
           => /\ CreatedByRun(<<ChannelName(c), "tar.bz2.asc">>)
              /\ fs.files[<<ChannelName(c), "tar.bz2.asc">>].kind = "asc")

\* C4: if the archive step of a channel fails, the signer is never invoked
\* for it, and packaging ends as a failure of that channel that carries
\* the exit status and the error text of the failing process.
C4_ArchiveFailureCarriesDiagnostics ==
    \A i \in DOMAIN invoked :
      (/\ invoked[i].tool = "tar"
       /\ ~(invoked[i].result.kind = "exit" /\ invoked[i].result.returncode = 0))
      => LET c == invoked[i].channel
         IN  /\ ~Invoked("gpg", c)
             /\ outcome[c] = "Failed"
             /\ exc # NoExc
             /\ exc.channel = c
             /\ exc.returncode = invoked[i].result.returncode
             /\ exc.stderr = invoked[i].result.stderr

\* The terminal states that are no failure.
NoFailure == {"Packaged", "SkippedEmpty", "SkippedLintFailed"}

\* C5: a run that processes at least one channel exits with status 0 if
\* every channel ended in Packaged or a deliberate skip, and exits with a
\* non-zero status if any channel ended in Failed.
C5_ExitStatusReflectsFailures ==
    (RunEnded /\ Selected # {}) =>
      /\ (\A c \in Selected : outcome[c] \in NoFailure) => exitStatus = 0
      /\ (\E c \in Selected : outcome[c] = "Failed") => exitStatus # 0

\* The selector of the run and the channels of the store it matches.
SelectorGiven ==
    IF args.script = FULL THEN args.channel_id.given ELSE args.channel.given
Matching ==
    IF args.script = FULL
    THEN { c \in ChannelIds : c = args.channel_id.value }
    ELSE { c \in ChannelIds : ChannelName(c) = args.channel.value }
ChannelsFetched ==
    \/ channels # <<>>
    \/ \E i \in DOMAIN log : log[i].msg = "no_channel"

\* C6: without a selector every channel of the store is processed; with a
\* selector exactly the matching channel is processed and no file of
\* another channel is written; a selector that matches no channel ends the
\* run with a non-zero status and no artifact, archive or signature.
C6_ChannelSelection ==
    ChannelsFetched =>
      /\ ~SelectorGiven => Selected = ChannelIds
      /\ (SelectorGiven /\ Matching # {}) =>
            /\ Selected = Matching
            /\ \A path \in touched \ {OutDir} :
                 \E c \in Matching : path \in FilesOf(c)
      /\ (SelectorGiven /\ Matching = {}) =>
            /\ RunEnded
            /\ exitStatus # 0
            /\ touched \cap Paths = {}

\* C7: a channel whose eligible rule set is empty ends in SkippedEmpty: no
\* artifact, archive or signature is written for it, the renderer, linter,
\* archiver and signer are not invoked for it, and a run of such channels
\* only is no error.
C7_EmptyChannelSkipped ==
    /\ \A c \in Selected :
         (Ended(c) /\ SQL_RULES_FOR_CHANNEL(store, c) = <<>>) =>
           /\ outcome[c] = "SkippedEmpty"
           /\ touched \cap FilesOf(c) = {}
           /\ \A i \in DOMAIN invoked : invoked[i].channel # c
    /\ (/\ RunEnded
        /\ Selected # {}
        /\ \A c \in Selected : Ended(c) /\ SQL_RULES_FOR_CHANNEL(store, c) = <<>>)
       => exitStatus = 0

\* C8: with --dry-run a run creates or writes nothing in the output
\* location and invokes no external process, and when it has gone through
\* all channels it has reported the file name of each of them.
C8_DryRunHasNoEffects ==
    args.dry_run =>
      /\ touched = {}
      /\ \A i \in DOMAIN invoked : invoked[i].tool \notin {"lint", "tar", "gpg"}
      /\ (RunEnded /\ exitStatus = 0) =>
           \A c \in Selected :
             \E i \in DOMAIN log :
               /\ log[i].msg = "dry_run"
               /\ log[i].subject = <<ChannelName(c), "cf">>

\* C9: the caller of the validator gets different results for a linter
\* that ran and rejected the artifact and for a linter that could not be
\* spawned or timed out.
C9_UnavailableDistinctFromRejected ==
    \A i, j \in DOMAIN invoked :
      (Rejected(i) /\ Unavailable(j)) => invoked[i].returned # invoked[j].returned

\* The channel whose loop body wrote log record i: the channel of the last
\* record "channel" up to i, 0 if there is none.
RECURSIVE ChannelOfRecord(_)
ChannelOfRecord(i) ==
    IF i = 0 THEN 0
    ELSE IF log[i].msg = "channel"
         THEN CHOOSE c \in ChannelIds : ChannelName(c) = log[i].subject
         ELSE ChannelOfRecord(i - 1)

\* The warnings of a hash mismatch naming a rule, logged for a channel.
MismatchWarnings(c, rule_name) ==
    { i \in DOMAIN log : /\ log[i].msg = "hash_mismatch"
                         /\ log[i].subject = rule_name
                         /\ ChannelOfRecord(i) = c }

\* C10: for every channel of the run whose processing has ended and every
\* rule of its rule set whose stored fingerprint differs from the hash of
\* its body, exactly one warning naming that rule was logged for the
\* channel.
C10_MismatchWarnedOnce ==
    \A c \in Selected :
      Ended(c) =>
        LET rows == SQL_RULES_FOR_CHANNEL(store, c)
        IN  \A k \in 1..Len(rows) :
              rows[k].rule_hash # compute_hash(rows[k].rule)
                => Cardinality(MismatchWarnings(c, rows[k].rule_name)) = 1

\* The run has logged a failure to load the configuration or to connect
\* to the store.
RunFatal == \E i \in DOMAIN log : log[i].msg \in {"config", "mysql"}

\* C11: if loading the configuration fails or the store connection cannot
\* be opened, the run ends at once with a non-zero status: the error is
\* the last thing it logs, no channel is fetched or processed (no rule
\* query, render, lint, archive or sign) and no artifact, archive or
\* signature is written.
C11_FatalErrorsEndTheRun ==
    RunFatal =>
      /\ RunEnded
      /\ exitStatus # 0
      /\ log[Len(log)].msg \in {"config", "mysql"}
      /\ channels = <<>>
      /\ rules = <<>>
      /\ stages = <<>>
      /\ invoked = <<>>
      /\ \A c \in ChannelIds : ~Ended(c)
      /\ touched \cap Paths = {}

\* C11 witness: the connection to the store failed after the output
\* directory had been created.
C11_Witness ==
    /\ \E i \in DOMAIN log : log[i].msg = "mysql"
    /\ OutDir \in touched
    /\ RunEnded

\* The linter accepted the artifact of the channel.
LintPassed(c) ==
    \E i \in DOMAIN invoked :
      IsLint(i) /\ invoked[i].channel = c /\ invoked[i].returned

\* C12: at the end of a run of generate_channel_cf.py a channel has a file
\* of the triple (.cf, .tar.bz2, .tar.bz2.asc) written by this run only if
\* its artifact passed validation; a packaged channel has all three, and a
\* channel whose validation failed or could not be performed has none.
C12_FilesOnlyForValidatedChannels ==
    (args.script = FULL /\ RunEnded) =>
      \A c \in Selected :
        /\ (touched \cap FilesOf(c) # {}) => LintPassed(c)
        /\ outcome[c] = "Packaged" => \A path \in FilesOf(c) : CreatedByRun(path)
        /\ (Invoked("lint", c) /\ ~LintPassed(c)) => touched \cap FilesOf(c) = {}

\* The order of the stages of one channel.
StageRank(stage) ==
    CASE stage = "load" -> 1
      [] stage = "verify" -> 2
      [] stage = "render" -> 3
      [] stage = "write" -> 4
      [] stage = "lint" -> 5
      [] stage = "tar" -> 6
      [] stage = "gpg" -> 7

\* The position of a channel in the list the loader returned.
LoaderPosition(c) == CHOOSE k \in 1..Len(channels) : channels[k].id = c

\* C13: the stages of a channel occur in the order rule-set load,
\* fingerprint verification, rendering and writing, validation, packaging,
\* and the channels are processed one after another in loader order: no
\* stage of a channel comes after a stage of a later channel.
C13_StageOrder ==
    \A i, j \in DOMAIN stages :
      i < j =>
        /\ LoaderPosition(stages[i].channel) <= LoaderPosition(stages[j].channel)
        /\ stages[i].channel = stages[j].channel
             => StageRank(stages[i].stage) < StageRank(stages[j].stage)

\* The stages of a channel, in the order they occurred.
StagesOf(c) == SelectSeq(stages, LAMBDA e : e.channel = c)

\* C14: every channel of a run of generate_channel_cf.py that has ended is
\* in one of the terminal states Packaged, SkippedEmpty, SkippedLintFailed,
\* Failed, and it is Packaged only if, in this order, its rule set was
\* non-empty, its artifact was written, the linter exited 0, tar succeeded
\* and gpg succeeded.
C14_TerminalStates ==
    (args.script = FULL /\ RunEnded) =>
      \A c \in Selected :
        /\ outcome[c] \in {"Packaged", "SkippedEmpty", "SkippedLintFailed", "Failed"}
        /\ outcome[c] = "Packaged" =>
             /\ SQL_RULES_FOR_CHANNEL(store, c) # <<>>
             /\ [k \in 1..Len(StagesOf(c)) |-> StagesOf(c)[k].stage]
                  = <<"load", "render", "write", "verify", "lint", "tar", "gpg">>
             /\ LintPassed(c)
             /\ \A i \in DOMAIN invoked :
                  (invoked[i].channel = c /\ invoked[i].tool \in {"tar", "gpg"})
                    => (invoked[i].result.kind = "exit"
                        /\ invoked[i].result.returncode = 0)
             /\ \A path \in FilesOf(c) : CreatedByRun(path)

\* The rule set of the channel of the loop has been fetched and the
\* channel is being processed.
RuleSetResolved == pc \in {"write_cf", "validate", "archive", "sign", "render", "emit"}

\* A rule is eligible for a channel: bound to it, active and in production.
Eligible(r, c) ==
    /\ <<c, r>> \in store.channel_rules
    /\ store.rules[r].active = 1
    /\ store.rules[r].status = "production"

\* C15: the rule set of a channel holds a rule if and only if the rule is
\* bound to the channel, active and in production, each once and as the
\* store holds it; a rule precedes another iff its name sorts before the
\* other's; and the rendered text holds the rules in that order.
C15_RuleSetIsFilteredAndSorted ==
    RuleSetResolved =>
      /\ \A r \in RuleIds :
           (\E k \in 1..Len(rules) : rules[k].id = r) <=> Eligible(r, ch.id)
      /\ \A k \in 1..Len(rules) : rules[k] = store.rules[rules[k].id]
      /\ \A k, l \in 1..Len(rules) :
           k < l <=> LexLess(rules[k].rule_name, rules[l].rule_name)
      /\ pc \in {"validate", "archive", "sign", "emit"} =>
           /\ Len(rendered.rules) = Len(rules)
           /\ \A k \in 1..Len(rules) :
                rendered.rules[k] = <<rules[k].rule_name, rules[k].rule>>

\* C15 witness: a channel has been rendered with two rules, after a
\* channel that has one of them and not the other.
C15_Witness ==
    /\ pc \in {"validate", "emit"}
    /\ Len(rendered.rules) >= 2
    /\ \E c \in Selected, r1, r2 \in RuleIds :
         Ended(c) /\ Eligible(r1, c) /\ ~Eligible(r2, c) /\ Eligible(r2, ch.id)

-----------------------------------------------------------------------------
(* Several runs of generate_channel_cf.py --channel-id <c> on one output   *)
(* directory.  The scripts take no lock; the runs share nothing but the    *)
(* files and the wall clock.  conc holds the state of the runs:            *)
(*   schedule  "sequential": a run starts when no other run is under way   *)
(*             "concurrent": the steps of the runs interleave freely       *)
(*   chan, pc, rules, outcome, touched   per run                            *)
(*   files     per path [data, by, from]: the content, the run that wrote  *)
(*             it, and the run that wrote the file it was made from        *)
(*   clock     datetime.utcnow()                                           *)
(***************************************************************************)

Runs == {"A", "B"}

\* The variables of the single run, which these runs leave alone.
single == <<args, store, pc, channels, idx, rules, rendered, clock, fs, touched,
            log, invoked, outcome, exc, exitStatus, stages>>

\* A store in which every rule is eligible and bound to every channel.
RunsStore ==
    [rules |-> [r \in RuleIds |->
                  [id |-> r, rule_name |-> RuleName(r), rule |-> RuleBody(r),
                   rule_hash |-> compute_hash(RuleBody(r)), active |-> 1,
                   status |-> "production"]],
     channel_rules |-> ChannelIds \X RuleIds]

NoFile == [data |-> Absent, by |-> "none", from |-> "none"]

InitRuns ==
    /\ args = [script |-> FULL, channel_id |-> NoSelector(0),
               channel |-> NoSelector(<<>>), dry_run |-> FALSE]
    /\ store = RunsStore
    /\ pc = "load_config"
    /\ channels = <<>>
    /\ idx = 1
    /\ rules = <<>>
    /\ rendered = Absent
    /\ clock = 1
    /\ fs = [dir |-> FALSE, files |-> [p \in Paths |-> Absent]]
    /\ touched = {}
    /\ log = <<>>
    /\ invoked = <<>>
    /\ outcome = [c \in ChannelIds |-> "None"]
    /\ exc = NoExc
    /\ exitStatus = -1
    /\ stages = <<>>
    /\ \E sched \in {"sequential", "concurrent"}, sel \in [Runs -> ChannelIds] :
         conc = [schedule |-> sched,
                 chan |-> sel,
                 pc |-> [r \in Runs |-> "start"],
                 rules |-> [r \in Runs |-> <<>>],
                 outcome |-> [r \in Runs |-> "None"],
                 touched |-> [r \in Runs |-> {}],
                 files |-> [p \in Paths |-> NoFile],
                 clock |-> 1]

\* A run is under way: started and not ended.
UnderWay(r) == conc.pc[r] \notin {"start", "done"}

\* The schedule lets the run take a step.
MayStep(r) ==
    conc.schedule = "sequential" => \A q \in Runs \ {r} : ~UnderWay(q)

\* The loop body of the run ends; its only channel is done, the run ends.
RunEnds(r, result) ==
    [conc EXCEPT !.pc[r] = "done", !.outcome[r] = result]

\* The run writes a file / fails to write it (as WriteFile, FailedWrite).
RunWrites(c, r, path, content, source) ==
    [c EXCEPT !.files[path] = [data |-> content, by |-> r, from |-> source],
              !.touched[r] = @ \cup {path}]

\* main up to "Channels laden": the run has its configuration, the output
\* directory exists, the channel with the id is fetched.
RunStart(r) ==
    /\ conc.pc[r] = "start"
    /\ MayStep(r)
    /\ conc' = [conc EXCEPT !.pc[r] = "loop"]
    /\ UNCHANGED single

\* as MainBeginChannel
RunBeginChannel(r) ==
    /\ conc.pc[r] = "loop"
    /\ MayStep(r)
    /\ LET rows == SQL_RULES_FOR_CHANNEL(store, conc.chan[r])
       IN  conc' = IF rows = <<>>
                   THEN RunEnds(r, "SkippedEmpty")
                   ELSE [conc EXCEPT !.pc[r] = "write_cf", !.rules[r] = rows]
    /\ UNCHANGED single

\* as WriteCfFile
RunWriteCfFile(r) ==
    /\ conc.pc[r] = "write_cf"
    /\ MayStep(r)
    /\ LET cf == File(ChannelName(conc.chan[r]), "cf")
           text == Render(ChannelRow(conc.chan[r]), conc.rules[r], conc.clock)
           ticked == [conc EXCEPT !.clock = @ + 1]
       IN  \/ \* get_template or render raises
              conc' = RunEnds(r, "Failed")
           \/ \* write_text raises and leaves a truncated file
              conc' = RunWrites(RunEnds(r, "Failed"), r, cf, Partial, r)
           \/ \* written
              conc' = RunWrites([ticked EXCEPT !.pc[r] = "validate"], r, cf, text, r)
    /\ UNCHANGED single

\* as Validate: the linter reads the file that is there now
RunValidate(r) ==
    /\ conc.pc[r] = "validate"
    /\ MayStep(r)
    /\ \E result \in LintResults :
         conc' = IF validate_cf_file(result)
                 THEN [conc EXCEPT !.pc[r] = "archive"]
                 ELSE RunEnds(r, "SkippedLintFailed")
    /\ UNCHANGED single

\* as Archive: tar reads the .cf that is there now
RunArchive(r) ==
    /\ conc.pc[r] = "archive"
    /\ MayStep(r)
    /\ LET cf == File(ChannelName(conc.chan[r]), "cf")
           tar == File(ChannelName(conc.chan[r]), "tar.bz2")
       IN  \E result \in TarResults :
             conc' = IF result.kind = "exit" /\ result.returncode = 0
                     THEN RunWrites([conc EXCEPT !.pc[r] = "sign"], r, tar,
                                    TarOf(conc.files[cf].data), conc.files[cf].by)
                     ELSE RunEnds(r, "Failed")
    /\ UNCHANGED single

\* as Sign: gpg reads the archive that is there now
RunSign(r) ==
    /\ conc.pc[r] = "sign"
    /\ MayStep(r)
    /\ LET tar == File(ChannelName(conc.chan[r]), "tar.bz2")
           asc == File(ChannelName(conc.chan[r]), "tar.bz2.asc")
       IN  \E result \in GpgResults :
             conc' = IF result.kind = "exit" /\ result.returncode = 0
                     THEN RunWrites(RunEnds(r, "Packaged"), r, asc,
                                    SigOf(conc.files[tar].data), conc.files[tar].by)
                     ELSE RunEnds(r, "Failed")
    /\ UNCHANGED single

NextRuns ==
    \E r \in Runs :
      \/ RunStart(r)
      \/ RunBeginChannel(r)
      \/ RunWriteCfFile(r)
      \/ RunValidate(r)
      \/ RunArchive(r)
      \/ RunSign(r)

SpecRuns == InitRuns /\ [][NextRuns]_vars

\* The file of a channel with an extension.
RunFile(c, ext) == conc.files[<<ChannelName(c), ext>>]

\* C17: two runs that select different channels never write, archive or
\* sign the same file, however they interleave: each run touches the files
\* of its channel only, and a run that packages a channel no other run
\* selects leaves the bundle it would leave alone (its artifact, the
\* archive of that artifact, the signature of that archive).  A file made
\* by one run from a file written by another run is possible only when
\* the two runs select the same channel.
C17_OnlyRunsOnOneChannelInterfere ==
    conc.schedule # "none" =>
      /\ \A r \in Runs : conc.touched[r] \subseteq FilesOf(conc.chan[r])
      /\ \A r, q \in Runs :
           conc.chan[r] # conc.chan[q] => conc.touched[r] \cap conc.touched[q] = {}
      /\ \A path \in Paths :
           LET f == conc.files[path]
           IN  (f.by # "none" /\ f.by # f.from) => conc.chan[f.by] = conc.chan[f.from]
      /\ \A r \in Runs :
           (/\ conc.outcome[r] = "Packaged"
            /\ \A q \in Runs \ {r} : conc.chan[q] # conc.chan[r])
           => LET c == conc.chan[r]
              IN  /\ \A e \in Exts : RunFile(c, e).by = r /\ RunFile(c, e).from = r
                  /\ RunFile(c, "cf").data.kind = "text"
                  /\ RunFile(c, "tar.bz2").data = TarOf(RunFile(c, "cf").data)
                  /\ RunFile(c, "tar.bz2.asc").data = SigOf(RunFile(c, "tar.bz2").data)

\* C17 witness: two concurrent runs on one channel, and the archive one of
\* them made holds the artifact the other one wrote.
C17_Witness ==
    /\ conc.schedule = "concurrent"
    /\ \E c \in ChannelIds :
         /\ RunFile(c, "tar.bz2").data.kind = "tar"
         /\ RunFile(c, "tar.bz2").by # RunFile(c, "tar.bz2").from

\* C18: after any sequence of runs one after the other on one output
\* directory, an archive <channel>.tar.bz2 that exists was made from the
\* content <channel>.cf holds now.
C18_ArchiveMadeFromCurrentArtifact ==
    (/\ conc.schedule = "sequential"
     /\ \A r \in Runs : ~UnderWay(r))
    => \A c \in ChannelIds :
         RunFile(c, "tar.bz2").data.kind = "tar"
           => RunFile(c, "tar.bz2").data.member = RunFile(c, "cf").data

====
